---------------------------- MODULE Spec2Model ----------------------------
(***************************************************************************)
(* State-machine model of the Morpheus HMD driver                          *)
(* (src/psmoveservice/MorpheusHMD/MorpheusHMD.cpp): HID channel lifecycle  *)
(* (open / close), the bounded poll loop, the decoded state history and    *)
(* its lookback accessor.                                                  *)
(*                                                                         *)
(* The driver is single-threaded: one owner calls open(), poll() and       *)
(* close().  A call is modelled from its entry to its return; poll() is    *)
(* split at its loop head, one step per hid_read, because the claims speak *)
(* about the individual reads of one call.  While a call is running no     *)
(* other operation is enabled.  After the return the state "returned"      *)
(* shows the call's result to the caller, who then resumes (Resume).       *)
(***************************************************************************)
EXTENDS Integers, Sequences, FiniteSets, TLC

\* ------------------------------------------------------------------ bounds
\* Largest value the sequence counter reaches: the transport delivers no
\* further packet once NextPollSequenceNumber = MaxSequence.
MaxSequence == 34
\* Number of most recently decoded entries the history variable decoded keeps.
LogWindow == 6
\* Number of native HID handles the transport can hand out.
MaxHandles == 3
\* Largest lookback argument tried by consumers (getState).
MaxLookBack == 6

\* ------------------------------------------------------- program constants
MORPHEUS_SENSOR_INTERFACE == 4
MORPHEUS_COMMAND_INTERFACE == 5
MORPHEUS_HMD_STATE_BUFFER_MAX == 4
k_max_iterations == 32
CONFIG_VERSION == 1

\* nullptr for a hid_device*, and the empty std::string
nullptr == 0
EmptyString == ""

\* ePollResult
_PollResultSuccessNoData == "SuccessNoData"
_PollResultSuccessNewData == "SuccessNewData"
_PollResultFailure == "Failure"

\* ---------------------------------------------------------- the environment
\* Paths the device enumerator can report (HMDDeviceEnumerator::get_path).
EnumeratorPaths == {"hmdA", "hmdB"}

\* HMDDeviceEnumerator::get_interface_path: the path of one HID interface of
\* the enumerated device.
get_interface_path(path, interface) == <<path, interface>>

Handles == 1..MaxHandles

\* One raw IMU sub-frame: six little-endian byte pairs <<low, high>>.
RawFrameA ==
    [accel_x |-> <<52, 18>>, accel_y |-> <<0, 128>>, accel_z |-> <<255, 255>>,
     gyro_x |-> <<1, 0>>, gyro_y |-> <<255, 127>>, gyro_z |-> <<0, 0>>]
RawFrameB ==
    [accel_x |-> <<0, 255>>, accel_y |-> <<16, 39>>, accel_z |-> <<240, 216>>,
     gyro_x |-> <<255, 0>>, gyro_y |-> <<0, 1>>, gyro_z |-> <<128, 128>>]
RawFrameZero ==
    [accel_x |-> <<0, 0>>, accel_y |-> <<0, 0>>, accel_z |-> <<0, 0>>,
     gyro_x |-> <<0, 0>>, gyro_y |-> <<0, 0>>, gyro_z |-> <<0, 0>>]

\* The values of an unsigned char, and a raw IMU sub-frame in which every
\* axis runs through all byte pairs as low and high do.
Bytes == 0..255
RawFrameOf(low, high) ==
    [accel_x |-> <<low, high>>, accel_y |-> <<high, low>>,
     accel_z |-> <<high, 255 - low>>, gyro_x |-> <<255 - low, high>>,
     gyro_y |-> <<low, 255 - high>>, gyro_z |-> <<255 - low, 255 - high>>]

\* MorpheusDataInput after Reset(): memset to 0.
ZeroDataInput == [imu_frame_0 |-> RawFrameZero, imu_frame_1 |-> RawFrameZero]

\* The packets the sensor channel delivers: the device alternates between
\* two packets, starting anew when it is opened (n counts the packets read
\* since then).
DevicePacket(n) ==
    IF n % 2 = 0
    THEN [imu_frame_0 |-> RawFrameA, imu_frame_1 |-> RawFrameB]
    ELSE [imu_frame_0 |-> RawFrameB, imu_frame_1 |-> RawFrameZero]

\* ------------------------------------------------------- the configuration
\* The consecutive failed polls the counting owner goes up to, and the poll
\* sequence numbers it lets the device reach.
MaxFailures == 102
MaxFailureSequence == 1

\* The longest list a response carries and the controllerListUpdated events
\* that are delivered.
MaxListSize == 2
MaxEvents == 2

\* MorpheusHMDConfig as constructed (cfg()).  The float members are held in
\* fixed-point units, so that they are integers.
DefaultConfig ==
    [is_valid |-> FALSE, version |-> CONFIG_VERSION,
     accelerometer_gain |-> 2, accelerometer_variance |-> 4,
     gyro_gain |-> 3, gyro_variance |-> 5, gyro_drift |-> 6,
     identity_gravity_direction |-> [i |-> 0, j |-> 1, k |-> 0],
     min_orientation_quality_screen_area |-> 7,
     max_orientation_quality_screen_area |-> 8,
     min_position_quality_screen_area |-> 9,
     max_position_quality_screen_area |-> 10,
     max_velocity |-> 11,
     prediction_time |-> 0,
     max_poll_failure_count |-> 100,
     tracking_color_id |-> "Blue"]

\* The members of MorpheusHMDConfig other than version.
ConfigFields == DOMAIN DefaultConfig \ {"version"}

\* A property tree is a function from keys to the text stored under them.
\* ptree::put(key, value): the tree with the value's text under key.
put(pt, key, text) ==
    [k \in DOMAIN pt \cup {key} |-> IF k = key THEN text ELSE pt[k]]

\* A tree without any key.
EmptyTree == [k \in {} |-> ""]

\* put() storing a bool as yes / no.
BoolText_yesNo(b) == IF b THEN "yes" ELSE "no"

\* The text put() stores for a bool and for a number.
BoolText(b) == IF b THEN "true" ELSE "false"
NumberText(n) == ToString(n)

\* The numbers whose text get() can parse.
Numbers == 0..128

\* ptree::get<bool>(key, default)
getBool(pt, key, default) ==
    IF key \notin DOMAIN pt THEN default
    ELSE IF pt[key] \in {"true", "1"} THEN TRUE
    ELSE IF pt[key] \in {"false", "0"} THEN FALSE
    ELSE default

\* ptree::get<int / long / float>(key, default)
getNumber(pt, key, default) ==
    IF key \notin DOMAIN pt THEN default
    ELSE IF \E n \in Numbers : NumberText(n) = pt[key]
         THEN CHOOSE n \in Numbers : NumberText(n) = pt[key]
         ELSE default

\* eCommonTrackingColorID
TrackingColors == {"Magenta", "Cyan", "Yellow", "Red", "Green", "Blue"}

\* PSMoveConfig::writeTrackingColor
writeTrackingColor(pt, tracking_color_id) ==
    put(pt, "tracking_color", tracking_color_id)

\* PSMoveConfig::readTrackingColor
readTrackingColor(pt) ==
    IF "tracking_color" \in DOMAIN pt /\ pt["tracking_color"] \in TrackingColors
    THEN pt["tracking_color"]
    ELSE DefaultConfig.tracking_color_id

\* MorpheusHMDConfig::config2ptree
config2ptree(c) ==
    LET p1 == put(EmptyTree, "is_valid", BoolText(c.is_valid))
        p2 == put(p1, "version", NumberText(CONFIG_VERSION))
        p3 == put(p2, "Calibration.Accel.Gain", NumberText(c.accelerometer_gain))
        p4 == put(p3, "Calibration.Accel.Variance",
                  NumberText(c.accelerometer_variance))
        p5 == put(p4, "Calibration.Gyro.Gain", NumberText(c.gyro_gain))
        p6 == put(p5, "Calibration.Gyro.Variance", NumberText(c.gyro_variance))
        p7 == put(p6, "Calibration.Gyro.Drift", NumberText(c.gyro_drift))
        p8 == put(p7, "Calibration.Identity.Gravity.X",
                  NumberText(c.identity_gravity_direction.i))
        p9 == put(p8, "Calibration.Identity.Gravity.Y",
                  NumberText(c.identity_gravity_direction.j))
        p10 == put(p9, "Calibration.Identity.Gravity.Z",
                   NumberText(c.identity_gravity_direction.k))
        p11 == put(p10, "OrientationFilter.MinQualityScreenArea",
                   NumberText(c.min_orientation_quality_screen_area))
        p12 == put(p11, "OrientationFilter.MaxQualityScreenArea",
                   NumberText(c.max_orientation_quality_screen_area))
        p13 == put(p12, "PositionFilter.MinQualityScreenArea",
                   NumberText(c.min_position_quality_screen_area))
        p14 == put(p13, "PositionFilter.MaxQualityScreenArea",
                   NumberText(c.max_position_quality_screen_area))
        p15 == put(p14, "PositionFilter.MaxVelocity", NumberText(c.max_velocity))
        p16 == put(p15, "prediction_time", NumberText(c.prediction_time))
        p17 == put(p16, "max_poll_failure_count",
                   NumberText(c.max_poll_failure_count))
    IN  writeTrackingColor(p17, c.tracking_color_id)

\* MorpheusHMDConfig::ptree2config on the configuration c: the configuration
\* after the call and whether the version warning was logged.
ptree2config(c, pt) ==
    LET version == getNumber(pt, "version", 0)
    IN  IF version = CONFIG_VERSION
        THEN [warning |-> FALSE,
              cfg |->
                [is_valid |-> getBool(pt, "is_valid", FALSE),
                 version |-> version,
                 prediction_time |-> getNumber(pt, "prediction_time", 0),
                 max_poll_failure_count |->
                    getNumber(pt, "max_poll_failure_count", 100),
                 accelerometer_gain |->
                    getNumber(pt, "Calibration.Accel.Gain", c.accelerometer_gain),
                 accelerometer_variance |->
                    getNumber(pt, "Calibration.Accel.Variance",
                              c.accelerometer_variance),
                 gyro_gain |-> getNumber(pt, "Calibration.Gyro.Gain", c.gyro_gain),
                 gyro_variance |->
                    getNumber(pt, "Calibration.Gyro.Variance", c.gyro_variance),
                 gyro_drift |->
                    getNumber(pt, "Calibration.Gyro.Drift", c.gyro_drift),
                 min_orientation_quality_screen_area |->
                    getNumber(pt, "OrientationFilter.MinQualityScreenArea",
                              c.min_orientation_quality_screen_area),
                 max_orientation_quality_screen_area |->
                    getNumber(pt, "OrientationFilter.MaxQualityScreenArea",
                              c.max_orientation_quality_screen_area),
                 min_position_quality_screen_area |->
                    getNumber(pt, "PositionFilter.MinQualityScreenArea",
                              c.min_position_quality_screen_area),
                 max_position_quality_screen_area |->
                    getNumber(pt, "PositionFilter.MaxQualityScreenArea",
                              c.max_position_quality_screen_area),
                 max_velocity |->
                    getNumber(pt, "PositionFilter.MaxVelocity", c.max_velocity),
                 identity_gravity_direction |->
                    [i |-> getNumber(pt, "Calibration.Identity.Gravity.X",
                                     c.identity_gravity_direction.i),
                     j |-> getNumber(pt, "Calibration.Identity.Gravity.Y",
                                     c.identity_gravity_direction.j),
                     k |-> getNumber(pt, "Calibration.Identity.Gravity.Z",
                                     c.identity_gravity_direction.k)],
                 tracking_color_id |-> readTrackingColor(pt)]]
        ELSE [warning |-> TRUE, cfg |-> [c EXCEPT !.version = version]]

\* The persisted configuration file: no file, or a file holding a tree.
NoDocument == <<>>
Document(pt) == <<pt>>

\* A configuration an earlier session calibrated, and the documents the
\* configuration file is replaced with: complete and partial ones of the
\* expected version, one of a newer version, one without a version and one
\* whose values do not parse.
CalibratedConfig ==
    [is_valid |-> TRUE, version |-> CONFIG_VERSION,
     accelerometer_gain |-> 20, accelerometer_variance |-> 40,
     gyro_gain |-> 30, gyro_variance |-> 50, gyro_drift |-> 60,
     identity_gravity_direction |-> [i |-> 1, j |-> 0, k |-> 0],
     min_orientation_quality_screen_area |-> 70,
     max_orientation_quality_screen_area |-> 80,
     min_position_quality_screen_area |-> 90,
     max_position_quality_screen_area |-> 101,
     max_velocity |-> 110,
     prediction_time |-> 12,
     max_poll_failure_count |-> 13,
     tracking_color_id |-> "Red"]
\* What an earlier run of the service has left as the configuration file:
\* nothing, or the calibrated configuration.
InitialDocuments == {NoDocument, Document(config2ptree(CalibratedConfig))}
VersionOnly == put(EmptyTree, "version", NumberText(CONFIG_VERSION))
Documents ==
    {config2ptree(CalibratedConfig),
     VersionOnly,
     put(put(VersionOnly, "Calibration.Accel.Gain", NumberText(21)),
         "is_valid", "true"),
     put(put(put(VersionOnly, "PositionFilter.MaxVelocity", NumberText(111)),
             "Calibration.Identity.Gravity.Z", NumberText(1)),
         "prediction_time", NumberText(14)),
     put(config2ptree(CalibratedConfig), "version",
         NumberText(CONFIG_VERSION + 1)),
     put(put(EmptyTree, "is_valid", "1"),
         "Calibration.Gyro.Gain", NumberText(31)),
     put(put(put(VersionOnly, "is_valid", "maybe"),
             "Calibration.Gyro.Drift", "fast"),
         "tracking_color", "Mauve")}

\* ------------------------------------------------------------ frame decoder
\* The two bytes put together without the conversion to short.
ToShort_unsigned(b) == b[2] * 256 + b[1]

\* static_cast<short>((b[1] << 8) | b[0]) for two unsigned chars.
ToShort(b) ==
    LET u == b[2] * 256 + b[1]
    IN  IF u >= 32768 THEN u - 65536 ELSE u

\* MorpheusHMDSensorFrame::parse_data_input
SensorFrame_parse_data_input(config, data_input) ==
    LET raw_accelX == ToShort(data_input.accel_x)
        raw_accelY == ToShort(data_input.accel_y)
        raw_accelZ == ToShort(data_input.accel_z)
        raw_gyroX == ToShort(data_input.gyro_x)
        raw_gyroY == ToShort(data_input.gyro_y)
        raw_gyroZ == ToShort(data_input.gyro_z)
    IN  [RawAccel |-> <<raw_accelX, raw_accelY, raw_accelZ>>,
         RawGyro |-> <<raw_gyroX, raw_gyroY, raw_gyroZ>>,
         CalibratedAccel |->
            <<raw_accelX * config.accelerometer_gain,
              raw_accelY * config.accelerometer_gain,
              raw_accelZ * config.accelerometer_gain>>,
         CalibratedGyro |->
            <<raw_gyroX * config.gyro_gain,
              raw_gyroY * config.gyro_gain,
              raw_gyroZ * config.gyro_gain>>]

\* MorpheusHMDState::parse_data_input: SensorFrames[0], SensorFrames[1]
State_parse_data_input(config, data_input) ==
    <<SensorFrame_parse_data_input(config, data_input.imu_frame_0),
      SensorFrame_parse_data_input(config, data_input.imu_frame_1)>>

\* ------------------------------------------------------------ the variables
VARIABLES
    HIDDetails,             \* *MorpheusHMD::HIDDetails (MorpheusHIDDetails)
    cfg,                    \* MorpheusHMD::cfg
    cfgFile,                \* the persisted configuration document
    NextPollSequenceNumber, \* MorpheusHMD::NextPollSequenceNumber
    InData,                 \* *MorpheusHMD::InData
    HMDStates,              \* MorpheusHMD::HMDStates (front = oldest)
    pc,                     \* "idle" | "poll" (inside the loop) | "returned"
    iteration,              \* poll()'s loop variable
    result,                 \* the running call's result
    op,                     \* the operation that runs or has just returned
    args,                   \* its arguments
    live,                   \* transport: the handles that are open
    decoded,                \* history: the last LogWindow entries decoded
    atCall,                 \* history: the driver state at the call's entry
    hidLog,                 \* history: the transport calls made by this call
    consecutiveFailures,    \* owner: the polls in a row that returned Failure
    m_menuState,            \* AppStage_TrackerSettings::m_menuState
    m_selectedTrackerIndex, \* AppStage_TrackerSettings::m_selectedTrackerIndex
    m_trackerInfos,         \* AppStage_TrackerSettings::m_trackerInfos
    m_selectedControllerIndex,
    m_controllerInfos,
    m_selectedHmdIndex,
    m_hmdInfos,
    requests,               \* ClientPSMoveAPI: the requests awaiting a response
    events                  \* the controllerListUpdated events delivered

vars ==
    <<HIDDetails, cfg, cfgFile, NextPollSequenceNumber, InData, HMDStates,
      pc, iteration, result, op, args, live, decoded, atCall, hidLog,
      consecutiveFailures, m_menuState, m_selectedTrackerIndex, m_trackerInfos,
      m_selectedControllerIndex, m_controllerInfos, m_selectedHmdIndex,
      m_hmdInfos, requests, events>>

\* The members of the tracker settings menu with the requests it has issued.
menuVars ==
    <<m_menuState, m_selectedTrackerIndex, m_trackerInfos,
      m_selectedControllerIndex, m_controllerInfos, m_selectedHmdIndex,
      m_hmdInfos, requests, events>>

\* ------------------------------------------------------------- HID details
\* MorpheusHIDDetails::Reset
Reset ==
    [device_identifier |-> EmptyString,
     sensor_device_path |-> EmptyString,
     sensor_device_handle |-> nullptr,
     command_device_path |-> EmptyString,
     command_device_handle |-> nullptr]

\* MorpheusHMD::getIsOpen, for given HID details
IsOpen(hid) ==
    hid.sensor_device_handle # nullptr /\ hid.command_device_handle # nullptr

getIsOpen == IsOpen(HIDDetails)

\* MorpheusHMD::getIsReadyToPoll
getIsReadyToPoll == getIsOpen

\* MorpheusHMD::getUSBDevicePath
getUSBDevicePath == HIDDetails.sensor_device_path

\* MorpheusHMD::getMaxPollFailureCount
getMaxPollFailureCount == cfg.max_poll_failure_count

\* getTrackingColorID() reporting the configured colour.
getTrackingColorID_configured == <<TRUE, cfg.tracking_color_id>>

\* MorpheusHMD::getTrackingColorID: <<return value, out_tracking_color_id>>
getTrackingColorID == <<TRUE, "Blue">>

\* MorpheusHMD::matchesDeviceEnumerator, for an enumerator of the HMD's type
matchesDeviceEnumerator(enumerator_path) ==
    HIDDetails.device_identifier = enumerator_path

\* ------------------------------------------------------------ the transport
SetMin(S) == CHOOSE x \in S : \A y \in S : x <= y

\* hid_open_path: a new handle, or nullptr when the channel cannot be
\* opened (ok = FALSE) or the transport has no handle left.
hid_open_path(liveSet, ok) ==
    IF ok /\ Handles \ liveSet # {} THEN SetMin(Handles \ liveSet) ELSE nullptr

OpenCallLog(path, handle) ==
    [call |-> "hid_open_path", path |-> path, handle |-> handle]
CloseCallLog(handle) == [call |-> "hid_close", handle |-> handle]
ReadCallLog(handle, res) == [call |-> "hid_read", handle |-> handle, res |-> res]

\* ------------------------------------------------------------ state history
NullState == "nullptr"
OutOfRange == "std::out_of_range"

\* std::vector::erase(begin() + first, begin() + last)
erase(v, first, last) ==
    SubSeq(v, 1, first) \o SubSeq(v, last + 1, Len(v))

\* std::vector::at (0-based)
at(v, i) == IF 0 <= i /\ i < Len(v) THEN v[i + 1] ELSE OutOfRange

\* poll(): "Make room for new entry if at the max queue size", then push_back
PushState(states, newState) ==
    LET room ==
            IF Len(states) >= MORPHEUS_HMD_STATE_BUFFER_MAX
            THEN erase(states, 0, Len(states) - MORPHEUS_HMD_STATE_BUFFER_MAX)
            ELSE states
    IN  Append(room, newState)

\* getState counting the lookback from the oldest entry.
getState_fromFront(lookBack) ==
    LET queueSize == Len(HMDStates)
    IN  IF lookBack < queueSize THEN at(HMDStates, lookBack) ELSE NullState

\* MorpheusHMD::getState
getState(lookBack) ==
    LET queueSize == Len(HMDStates)
    IN  IF lookBack < queueSize
        THEN at(HMDStates, queueSize - lookBack - 1)
        ELSE NullState

\* --------------------------------------------------------------- close()
\* close() closing the handles without resetting the HID details.
close_noReset(hid, liveSet, inData) ==
    [HIDDetails |-> hid,
     live |-> (liveSet \ {hid.sensor_device_handle})
                    \ {hid.command_device_handle},
     InData |-> inData,
     calls |->
        (IF hid.sensor_device_handle # nullptr
         THEN <<CloseCallLog(hid.sensor_device_handle)>> ELSE <<>>)
        \o
        (IF hid.command_device_handle # nullptr
         THEN <<CloseCallLog(hid.command_device_handle)>> ELSE <<>>)]

\* MorpheusHMD::close on HID details hid, with liveSet the handles open at
\* the transport: the HID details, the transport's handles, the input buffer
\* and the transport calls after the call.
close(hid, liveSet, inData) ==
    IF hid.sensor_device_handle # nullptr \/ hid.command_device_handle # nullptr
    THEN [HIDDetails |-> Reset,
          live |-> (liveSet \ {hid.sensor_device_handle})
                        \ {hid.command_device_handle},
          InData |-> ZeroDataInput,
          calls |->
            (IF hid.sensor_device_handle # nullptr
             THEN <<CloseCallLog(hid.sensor_device_handle)>> ELSE <<>>)
            \o
            (IF hid.command_device_handle # nullptr
             THEN <<CloseCallLog(hid.command_device_handle)>> ELSE <<>>)]
    ELSE [HIDDetails |-> hid, live |-> liveSet, InData |-> inData,
          calls |-> <<>>]

\* ---------------------------------------------------------------- open()
\* A failed open() that returns without calling close().
onOpenFailure_noClose(hid, liveSet, inData) ==
    [HIDDetails |-> hid, live |-> liveSet, InData |-> inData, calls |-> <<>>]

\* open(), "Failed to open MorpheusHMD": close() releases what was opened.
onOpenFailure(hid, liveSet, inData) == close(hid, liveSet, inData)

\* PSMoveConfig::save for the MorpheusHMDConfig c: the file written.
save(c) == Document(config2ptree(c))

\* A successful open() that leaves the sequence counter as it is.
onOpenSuccess_noCounterReset(hid, liveSet, opens) ==
    [success |-> TRUE, HIDDetails |-> hid, live |-> liveSet,
     InData |-> InData, cfgFile |-> save(cfg),
     NextPollSequenceNumber |-> NextPollSequenceNumber, calls |-> opens]

\* open(), both channels opened: cfg.save(), NextPollSequenceNumber = 0.
onOpenSuccess(hid, liveSet, opens) ==
    [success |-> TRUE, HIDDetails |-> hid, live |-> liveSet,
     InData |-> InData, cfgFile |-> save(cfg),
     NextPollSequenceNumber |-> 0, calls |-> opens]

\* MorpheusHMD::open(enumerator) on a device that is not open: both
\* hid_open_path calls, then either save + counter reset or close().
\* sensorOk / commandOk: whether the transport can open the channel.
openClosed(cur_dev_path, sensorOk, commandOk) ==
    LET sensor_path ==
            get_interface_path(cur_dev_path, MORPHEUS_SENSOR_INTERFACE)
        sensor_handle == hid_open_path(live, sensorOk)
        live1 == live \cup ({sensor_handle} \ {nullptr})
        command_path ==
            get_interface_path(cur_dev_path, MORPHEUS_COMMAND_INTERFACE)
        command_handle == hid_open_path(live1, commandOk)
        live2 == live1 \cup ({command_handle} \ {nullptr})
        hid == [device_identifier |-> cur_dev_path,
                sensor_device_path |-> sensor_path,
                sensor_device_handle |-> sensor_handle,
                command_device_path |-> command_path,
                command_device_handle |-> command_handle]
        opens == <<OpenCallLog(sensor_path, sensor_handle),
                   OpenCallLog(command_path, command_handle)>>
        closed == onOpenFailure(hid, live2, InData)
    IN  IF IsOpen(hid)
        THEN onOpenSuccess(hid, live2, opens)
        ELSE [success |-> FALSE, HIDDetails |-> closed.HIDDetails,
              live |-> closed.live, InData |-> closed.InData,
              cfgFile |-> cfgFile,
              NextPollSequenceNumber |-> NextPollSequenceNumber,
              calls |-> opens \o closed.calls]

\* open() storing the enumerator's path before it tests getIsOpen().
openAlreadyOpen_storesPath(cur_dev_path) ==
    [success |-> TRUE,
     HIDDetails |-> [HIDDetails EXCEPT !.device_identifier = cur_dev_path],
     live |-> live, InData |-> InData, cfgFile |-> cfgFile,
     NextPollSequenceNumber |-> NextPollSequenceNumber, calls |-> <<>>]

\* MorpheusHMD::open(enumerator) on a device that is already open.
openAlreadyOpen(cur_dev_path) ==
    [success |-> TRUE, HIDDetails |-> HIDDetails, live |-> live,
     InData |-> InData, cfgFile |-> cfgFile,
     NextPollSequenceNumber |-> NextPollSequenceNumber, calls |-> <<>>]

\* MorpheusHMD::open(enumerator)
open(cur_dev_path, sensorOk, commandOk) ==
    IF getIsOpen
    THEN openAlreadyOpen(cur_dev_path)
    ELSE openClosed(cur_dev_path, sensorOk, commandOk)

\* ------------------------------------------------------------------ poll()
\* A loop condition that admits one iteration too many.
LoopContinues_inclusive(i) == i <= k_max_iterations

\* The loop condition of poll()'s for statement.
LoopContinues(i) == i < k_max_iterations

\* A result that ignores the iteration number.
ResultOnNoMoreData_alwaysNoData(i) == _PollResultSuccessNoData

\* poll(), res == 0: the call's result
ResultOnNoMoreData(i) ==
    IF i = 0 THEN _PollResultSuccessNoData ELSE _PollResultSuccessNewData

\* poll(), res > 0: the new MorpheusHMDState
NewState(seq, config, inData) ==
    [PollSequenceNumber |-> seq,
     SensorFrames |-> State_parse_data_input(config, inData)]

\* A counter that is read but never advanced.
IncrementSequence_none(seq) == seq

\* ++NextPollSequenceNumber
IncrementSequence(seq) == seq + 1

\* ------------------------------------------------- tracker settings menu
\* eTrackerMenuState
PendingStates ==
    {"pendingSearchForNewTrackersRequest", "pendingTrackerListRequest",
     "pendingControllerListRequest", "pendingHmdListRequest"}
FailedStates ==
    {"failedTrackerListRequest", "failedControllerListRequest",
     "failedHmdListRequest"}
MenuStates == {"inactive", "idle"} \cup PendingStates \cup FailedStates

\* The requests the menu issues, and none of them awaiting a response.
RequestKinds == {"tracker_list", "controller_list", "hmd_list"}
NoRequests == [kind \in RequestKinds |-> 0]

\* AppStage_TrackerSettings::AppStage_TrackerSettings
MenuInit ==
    /\ m_menuState = "inactive"
    /\ m_selectedTrackerIndex = -1
    /\ m_trackerInfos = <<>>
    /\ m_selectedControllerIndex = -1
    /\ m_controllerInfos = <<>>
    /\ m_selectedHmdIndex = -1
    /\ m_hmdInfos = <<>>
    /\ requests = NoRequests
    /\ events = 0

\* ClientPSMoveAPI::eClientPSMoveResultCode
ResultCodes == {"ok", "error", "canceled"}

\* The payloads of the responses: a tracker list, the controllers of a
\* controller list response by type, and an HMD list.
TrackerLists ==
    {[i \in 1..n |-> [tracker_id |-> i - 1, tracker_type |-> "PS3EYE"]] :
        n \in 0..MaxListSize}
ControllerTypes == {"PSMOVE", "PSNAVI", "PSDUALSHOCK4"}
ControllerLists ==
    {[i \in 1..Len(types) |->
            [controller_id |-> i - 1, controller_type |-> types[i]]] :
        types \in UNION {[1..n -> ControllerTypes] : n \in 0..MaxListSize}}
HmdLists ==
    {[i \in 1..n |-> [hmd_id |-> i - 1, hmd_type |-> "Morpheus"]] :
        n \in 0..MaxListSize}

\* ClientPSMoveAPI::register_callback on a request just sent, and the
\* delivery of a response to its callback.
Issue(reqs, kind) == [reqs EXCEPT ![kind] = @ + 1]
Answer(reqs, kind) == [reqs EXCEPT ![kind] = @ - 1]

\* The guard of a request function taken for any pending state.
AlreadyPending_any(state, pendingState) == state \in PendingStates

\* The 'already pending' guard of the three request functions.
AlreadyPending(state, pendingState) == state = pendingState

\* AppStage_TrackerSettings::request_tracker_list
request_tracker_list(state, reqs) ==
    IF ~AlreadyPending(state, "pendingTrackerListRequest")
    THEN [m_menuState |-> "pendingTrackerListRequest",
          requests |-> Issue(reqs, "tracker_list")]
    ELSE [m_menuState |-> state, requests |-> reqs]

\* AppStage_TrackerSettings::request_controller_list
request_controller_list(state, reqs) ==
    IF ~AlreadyPending(state, "pendingControllerListRequest")
    THEN [m_menuState |-> "pendingControllerListRequest",
          requests |-> Issue(reqs, "controller_list")]
    ELSE [m_menuState |-> state, requests |-> reqs]

\* AppStage_TrackerSettings::request_hmd_list
request_hmd_list(state, reqs) ==
    IF ~AlreadyPending(state, "pendingHmdListRequest")
    THEN [m_menuState |-> "pendingHmdListRequest",
          requests |-> Issue(reqs, "hmd_list")]
    ELSE [m_menuState |-> state, requests |-> reqs]

\* handle_tracker_list_response: the selected index after the new list.
SelectedTrackerAfter(oldSelectedTrackerIndex, size) ==
    IF oldSelectedTrackerIndex # -1
    THEN IF oldSelectedTrackerIndex < size THEN oldSelectedTrackerIndex ELSE 0
    ELSE IF size > 0 THEN 0 ELSE -1

\* The controller selection kept as it was over a new list.
SelectedControllerAfter_kept(oldSelectedControllerIndex, size) ==
    IF oldSelectedControllerIndex # -1
    THEN oldSelectedControllerIndex
    ELSE IF size > 0 THEN 0 ELSE -1

\* handle_controller_list_response: the selected index after the new list.
SelectedControllerAfter(oldSelectedControllerIndex, size) ==
    IF oldSelectedControllerIndex # -1
    THEN IF oldSelectedControllerIndex < size
         THEN oldSelectedControllerIndex ELSE -1
    ELSE IF size > 0 THEN 0 ELSE -1

\* handle_hmd_list_response: the selected index after the new list.
SelectedHmdAfter(oldSelectedHmdIndex, size) ==
    IF oldSelectedHmdIndex # -1
    THEN IF oldSelectedHmdIndex < size THEN oldSelectedHmdIndex ELSE -1
    ELSE IF size > 0 THEN 0 ELSE -1

\* handle_controller_list_response: the ControllerInfo entries pushed for a
\* response (PSNavi controllers are left out).
ControllerInfosOf(controllers) ==
    LET kept == SelectSeq(controllers,
                    LAMBDA c : c.controller_type # "PSNAVI")
    IN  [i \in 1..Len(kept) |->
            [ControllerID |-> kept[i].controller_id,
             ControllerType |->
                IF kept[i].controller_type = "PSMOVE"
                THEN "PSMove" ELSE "PSDualShock4"]]

\* handle_hmd_list_response: the HMDInfo entries pushed for a response.
HmdInfosOf(hmd_entries) ==
    [i \in 1..Len(hmd_entries) |->
        [HmdID |-> hmd_entries[i].hmd_id, HmdType |-> "Morpheus"]]

\* The members of the driver, which the menu does not touch.
driverState ==
    <<HIDDetails, cfg, cfgFile, NextPollSequenceNumber, InData, HMDStates,
      pc, iteration, result, live, decoded, hidLog, consecutiveFailures>>

\* The lists and the selected indices at the entry of a response handler.
MenuSnapshot ==
    [m_selectedTrackerIndex |-> m_selectedTrackerIndex,
     m_trackerInfos |-> m_trackerInfos,
     m_selectedControllerIndex |-> m_selectedControllerIndex,
     m_controllerInfos |-> m_controllerInfos,
     m_selectedHmdIndex |-> m_selectedHmdIndex,
     m_hmdInfos |-> m_hmdInfos]

\* ----------------------------------------------------------- the behaviour
\* The last n elements of s (all of s when it has fewer).
LastOf(s, n) == IF Len(s) <= n THEN s ELSE SubSeq(s, Len(s) - n + 1, Len(s))

NoCall == "none"
NoResult == "none"

\* What a call can change of the driver, recorded at the call's entry.
Snapshot ==
    [HIDDetails |-> HIDDetails, cfg |-> cfg, cfgFile |-> cfgFile,
     NextPollSequenceNumber |-> NextPollSequenceNumber, InData |-> InData,
     HMDStates |-> HMDStates, live |-> live]

Init ==
    /\ HIDDetails = Reset
    /\ cfg = DefaultConfig
    /\ cfgFile \in InitialDocuments
    /\ NextPollSequenceNumber = 0
    /\ InData = ZeroDataInput
    /\ HMDStates = <<>>
    /\ pc = "idle"
    /\ iteration = 0
    /\ result = NoResult
    /\ op = NoCall
    /\ args = <<>>
    /\ live = {}
    /\ decoded = <<>>
    /\ atCall = NoCall
    /\ hidLog = <<>>
    /\ consecutiveFailures = 0
    /\ MenuInit

\* The owner calls open(enumerator).
Open(cur_dev_path, sensorOk, commandOk) ==
    /\ pc = "idle"
    /\ LET r == open(cur_dev_path, sensorOk, commandOk)
       IN  /\ HIDDetails' = r.HIDDetails
           /\ live' = r.live
           /\ InData' = r.InData
           /\ cfgFile' = r.cfgFile
           /\ NextPollSequenceNumber' = r.NextPollSequenceNumber
           /\ hidLog' = r.calls
           /\ result' = r.success
    /\ pc' = "returned"
    /\ op' = "open"
    /\ args' = <<cur_dev_path, sensorOk, commandOk>>
    /\ atCall' = Snapshot
    /\ UNCHANGED <<menuVars, consecutiveFailures, cfg, HMDStates, iteration, decoded>>

\* The owner calls open() and the enumerator finds no Morpheus device
\* (enumerator.is_valid() is false); with a valid enumerator open() is
\* open(&enumerator), the action Open.
OpenNoDevice ==
    /\ pc = "idle"
    /\ pc' = "returned"
    /\ op' = "open()"
    /\ args' = <<>>
    /\ result' = FALSE
    /\ atCall' = Snapshot
    /\ hidLog' = <<>>
    /\ UNCHANGED <<menuVars, consecutiveFailures, HIDDetails, cfg, cfgFile,
                   NextPollSequenceNumber, InData, HMDStates, iteration, live,
                   decoded>>

\* The owner calls close().
Close ==
    /\ pc = "idle"
    /\ LET r == close(HIDDetails, live, InData)
       IN  /\ HIDDetails' = r.HIDDetails
           /\ live' = r.live
           /\ InData' = r.InData
           /\ hidLog' = r.calls
    /\ pc' = "returned"
    /\ op' = "close"
    /\ args' = <<>>
    /\ result' = NoResult
    /\ atCall' = Snapshot
    /\ UNCHANGED <<menuVars, consecutiveFailures, cfg, cfgFile, NextPollSequenceNumber,
                   HMDStates, iteration, decoded>>

\* poll() entering its loop without testing getIsOpen().
PollCall_noOpenTest ==
    /\ pc = "idle"
    /\ op' = "poll"
    /\ args' = <<>>
    /\ atCall' = Snapshot
    /\ result' = _PollResultFailure
    /\ hidLog' = <<>>
    /\ iteration' = 0
    /\ pc' = IF LoopContinues(0) THEN "poll" ELSE "returned"
    /\ UNCHANGED <<menuVars, consecutiveFailures, HIDDetails, cfg, cfgFile,
                   NextPollSequenceNumber, InData, HMDStates, live, decoded>>

\* The owner calls poll(): up to the first evaluation of the loop condition.
PollCall ==
    /\ pc = "idle"
    /\ op' = "poll"
    /\ args' = <<>>
    /\ atCall' = Snapshot
    /\ result' = _PollResultFailure
    /\ hidLog' = <<>>
    /\ iteration' = 0
    /\ pc' = IF getIsOpen /\ LoopContinues(0) THEN "poll" ELSE "returned"
    /\ UNCHANGED <<menuVars, consecutiveFailures, HIDDetails, cfg, cfgFile,
                   NextPollSequenceNumber, InData, HMDStates, live, decoded>>

\* poll(): hid_read returned 0.
PollNoMoreData ==
    /\ pc = "poll"
    /\ hidLog' = Append(hidLog, ReadCallLog(HIDDetails.sensor_device_handle, "zero"))
    /\ result' = ResultOnNoMoreData(iteration)
    /\ pc' = "returned"
    /\ UNCHANGED <<menuVars, consecutiveFailures, HIDDetails, cfg, cfgFile,
                   NextPollSequenceNumber, InData, HMDStates, iteration, op,
                   args, live, decoded, atCall>>

\* poll() going on to the next iteration after a read error.
PollReadError_noBreak ==
    /\ pc = "poll"
    /\ hidLog' = Append(hidLog, ReadCallLog(HIDDetails.sensor_device_handle, "negative"))
    /\ result' = _PollResultFailure
    /\ iteration' = iteration + 1
    /\ pc' = IF LoopContinues(iteration + 1) THEN "poll" ELSE "returned"
    /\ UNCHANGED <<menuVars, consecutiveFailures, HIDDetails, cfg, cfgFile,
                   NextPollSequenceNumber, InData, HMDStates, op, args, live,
                   decoded, atCall>>

\* poll() closing the device on a read error.
PollReadError_closes ==
    /\ pc = "poll"
    /\ hidLog' = Append(hidLog, ReadCallLog(HIDDetails.sensor_device_handle, "negative"))
                    \o close(HIDDetails, live, InData).calls
    /\ result' = _PollResultFailure
    /\ pc' = "returned"
    /\ HIDDetails' = close(HIDDetails, live, InData).HIDDetails
    /\ live' = close(HIDDetails, live, InData).live
    /\ InData' = close(HIDDetails, live, InData).InData
    /\ UNCHANGED <<menuVars, consecutiveFailures, cfg, cfgFile, NextPollSequenceNumber,
                   HMDStates, iteration, op, args, atCall, decoded>>

\* poll(): hid_read returned a negative number.
PollReadError ==
    /\ pc = "poll"
    /\ hidLog' = Append(hidLog, ReadCallLog(HIDDetails.sensor_device_handle, "negative"))
    /\ result' = _PollResultFailure
    /\ pc' = "returned"
    /\ UNCHANGED <<menuVars, consecutiveFailures, HIDDetails, cfg, cfgFile,
                   NextPollSequenceNumber, InData, HMDStates, iteration, op,
                   args, live, decoded, atCall>>

\* poll(): hid_read returned a packet; the rest of the loop body, the
\* increment and the next evaluation of the loop condition.
PollNewData(packet) ==
    /\ pc = "poll"
    /\ NextPollSequenceNumber < MaxSequence
    /\ hidLog' = Append(hidLog, ReadCallLog(HIDDetails.sensor_device_handle, "positive"))
    /\ InData' = packet
    /\ result' = _PollResultSuccessNewData
    /\ NextPollSequenceNumber' = IncrementSequence(NextPollSequenceNumber)
    /\ HMDStates' =
         PushState(HMDStates, NewState(NextPollSequenceNumber, cfg, packet))
    /\ decoded' =
         LastOf(Append(decoded, NewState(NextPollSequenceNumber, cfg, packet)),
                LogWindow)
    /\ iteration' = iteration + 1
    /\ pc' = IF LoopContinues(iteration + 1) THEN "poll" ELSE "returned"
    /\ UNCHANGED <<menuVars, consecutiveFailures, HIDDetails, cfg, cfgFile, op, args,
                   live, atCall>>

\* The caller takes the result of the call that returned.
Resume ==
    /\ pc = "returned"
    /\ pc' = "idle"
    /\ op' = NoCall
    /\ args' = <<>>
    /\ result' = NoResult
    /\ atCall' = NoCall
    /\ hidLog' = <<>>
    /\ iteration' = 0
    /\ UNCHANGED <<menuVars, consecutiveFailures, HIDDetails, cfg, cfgFile,
                   NextPollSequenceNumber, InData, HMDStates, live, decoded>>

Next ==
    \/ \E path \in EnumeratorPaths, sensorOk \in BOOLEAN, commandOk \in BOOLEAN :
            Open(path, sensorOk, commandOk)
    \/ OpenNoDevice
    \/ Close
    \/ PollCall
    \/ PollNoMoreData
    \/ PollReadError
    \/ PollNewData(DevicePacket(NextPollSequenceNumber))
    \/ Resume

Spec == Init /\ [][Next]_vars

\* An owner that keeps polling whatever poll() returns and counts the polls
\* in a row that returned Failure (the count starts again at a poll that did
\* not fail).
ResumeCounting ==
    /\ pc = "returned"
    /\ (op = "poll" /\ result = _PollResultFailure) =>
            consecutiveFailures < MaxFailures
    /\ consecutiveFailures' =
            IF op # "poll" THEN consecutiveFailures
            ELSE IF result = _PollResultFailure THEN consecutiveFailures + 1
            ELSE 0
    /\ pc' = "idle"
    /\ op' = NoCall
    /\ args' = <<>>
    /\ result' = NoResult
    /\ atCall' = NoCall
    /\ hidLog' = <<>>
    /\ iteration' = 0
    /\ UNCHANGED <<menuVars, HIDDetails, cfg, cfgFile, NextPollSequenceNumber, InData,
                   HMDStates, live, decoded>>

NextFailures ==
    \/ \E path \in EnumeratorPaths, sensorOk \in BOOLEAN, commandOk \in BOOLEAN :
            Open(path, sensorOk, commandOk)
    \/ Close
    \/ PollCall
    \/ PollNoMoreData
    \/ PollReadError
    \/ /\ NextPollSequenceNumber < MaxFailureSequence
       /\ PollNewData(DevicePacket(NextPollSequenceNumber))
    \/ ResumeCounting

SpecFailures == Init /\ [][NextFailures]_vars

\* PSMoveConfig::load on cfg: ptree2config on the file's tree when there is a
\* file, nothing otherwise.
Load ==
    /\ pc = "idle"
    /\ IF cfgFile = NoDocument
       THEN /\ cfg' = cfg
            /\ result' = [loaded |-> FALSE, warning |-> FALSE]
       ELSE /\ cfg' = ptree2config(cfg, cfgFile[1]).cfg
            /\ result' = [loaded |-> TRUE,
                          warning |-> ptree2config(cfg, cfgFile[1]).warning]
    /\ pc' = "returned"
    /\ op' = "load"
    /\ args' = <<>>
    /\ atCall' = Snapshot
    /\ hidLog' = <<>>
    /\ UNCHANGED <<menuVars, HIDDetails, cfgFile, NextPollSequenceNumber, InData,
                   HMDStates, iteration, live, decoded, consecutiveFailures>>

\* PSMoveConfig::save on cfg.
Save ==
    /\ pc = "idle"
    /\ cfgFile' = save(cfg)
    /\ pc' = "returned"
    /\ op' = "save"
    /\ args' = <<>>
    /\ result' = NoResult
    /\ atCall' = Snapshot
    /\ hidLog' = <<>>
    /\ UNCHANGED <<menuVars, HIDDetails, cfg, NextPollSequenceNumber, InData,
                   HMDStates, iteration, live, decoded, consecutiveFailures>>

\* The configuration file is replaced while no call runs.
EditDocument(pt) ==
    /\ pc = "idle"
    /\ cfgFile' = Document(pt)
    /\ UNCHANGED <<menuVars, HIDDetails, cfg, NextPollSequenceNumber, InData, HMDStates,
                   pc, iteration, result, op, args, live, decoded, atCall,
                   hidLog, consecutiveFailures>>

NextConfig ==
    \/ Load
    \/ Save
    \/ \E pt \in Documents : EditDocument(pt)
    \/ \E path \in EnumeratorPaths, sensorOk \in BOOLEAN, commandOk \in BOOLEAN :
            Open(path, sensorOk, commandOk)
    \/ Close
    \/ Resume

SpecConfig == Init /\ [][NextConfig]_vars

\* The frame decoder on its own: the input buffer holds any byte pairs and
\* the configuration is the default or a calibrated one.
InitDecode ==
    /\ HIDDetails = Reset
    /\ cfg \in {DefaultConfig, CalibratedConfig}
    /\ cfgFile = NoDocument
    /\ NextPollSequenceNumber = 0
    /\ \E low \in Bytes, high \in Bytes :
            InData = [imu_frame_0 |-> RawFrameOf(low, high),
                      imu_frame_1 |-> RawFrameOf(high, low)]
    /\ HMDStates = <<>>
    /\ pc = "idle"
    /\ iteration = 0
    /\ result = NoResult
    /\ op = NoCall
    /\ args = <<>>
    /\ live = {}
    /\ decoded = <<>>
    /\ atCall = NoCall
    /\ hidLog = <<>>
    /\ consecutiveFailures = 0
    /\ MenuInit

\* MorpheusHMDState::parse_data_input(&cfg, InData) into a new state.
Decode ==
    /\ pc = "idle"
    /\ result' = NewState(NextPollSequenceNumber, cfg, InData)
    /\ pc' = "returned"
    /\ op' = "parse_data_input"
    /\ args' = <<cfg, InData>>
    /\ atCall' = Snapshot
    /\ UNCHANGED <<menuVars, HIDDetails, cfg, cfgFile, NextPollSequenceNumber, InData,
                   HMDStates, iteration, live, decoded, hidLog,
                   consecutiveFailures>>

NextDecode == Decode

SpecDecode == InitDecode /\ [][NextDecode]_vars

\* ------------------------------------------- tracker settings menu: steps
\* AppStage_TrackerSettings::enter
Enter ==
    /\ m_menuState = "inactive"
    /\ m_menuState' = request_tracker_list(m_menuState, requests).m_menuState
    /\ requests' = request_tracker_list(m_menuState, requests).requests
    /\ op' = "enter"
    /\ atCall' = NoCall
    /\ args' = <<>>
    /\ UNCHANGED <<driverState, m_selectedTrackerIndex, m_trackerInfos,
                   m_selectedControllerIndex, m_controllerInfos,
                   m_selectedHmdIndex, m_hmdInfos, events>>

\* AppStage_TrackerSettings::onClientAPIEvent(controllerListUpdated)
ControllerListUpdated ==
    /\ m_menuState # "inactive"
    /\ events < MaxEvents
    /\ events' = events + 1
    /\ m_menuState' = request_tracker_list(m_menuState, requests).m_menuState
    /\ requests' = request_tracker_list(m_menuState, requests).requests
    /\ op' = "onClientAPIEvent"
    /\ atCall' = NoCall
    /\ args' = <<>>
    /\ UNCHANGED <<driverState, m_selectedTrackerIndex, m_trackerInfos,
                   m_selectedControllerIndex, m_controllerInfos,
                   m_selectedHmdIndex, m_hmdInfos>>

\* AppStage_TrackerSettings::handle_tracker_list_response
TrackerListResponse(result_code, tracker_list) ==
    /\ requests["tracker_list"] > 0
    /\ op' = "handle_tracker_list_response"
    /\ atCall' = MenuSnapshot
    /\ args' = <<result_code>>
    /\ IF result_code = "ok"
       THEN LET next == request_controller_list(
                            m_menuState, Answer(requests, "tracker_list"))
            IN  /\ m_trackerInfos' = tracker_list
                /\ m_selectedTrackerIndex' =
                        SelectedTrackerAfter(m_selectedTrackerIndex,
                                             Len(tracker_list))
                /\ m_menuState' = next.m_menuState
                /\ requests' = next.requests
       ELSE /\ m_menuState' = "failedTrackerListRequest"
            /\ requests' = Answer(requests, "tracker_list")
            /\ UNCHANGED <<m_trackerInfos, m_selectedTrackerIndex>>
    /\ UNCHANGED <<driverState, m_selectedControllerIndex, m_controllerInfos,
                   m_selectedHmdIndex, m_hmdInfos, events>>

\* AppStage_TrackerSettings::handle_controller_list_response
ControllerListResponse(result_code, controllers) ==
    /\ requests["controller_list"] > 0
    /\ op' = "handle_controller_list_response"
    /\ atCall' = MenuSnapshot
    /\ args' = <<result_code>>
    /\ IF result_code = "ok"
       THEN LET next == request_hmd_list(
                            m_menuState, Answer(requests, "controller_list"))
            IN  /\ m_controllerInfos' = ControllerInfosOf(controllers)
                /\ m_selectedControllerIndex' =
                        SelectedControllerAfter(
                            m_selectedControllerIndex,
                            Len(ControllerInfosOf(controllers)))
                /\ m_menuState' = next.m_menuState
                /\ requests' = next.requests
       ELSE /\ m_menuState' = "failedControllerListRequest"
            /\ requests' = Answer(requests, "controller_list")
            /\ UNCHANGED <<m_controllerInfos, m_selectedControllerIndex>>
    /\ UNCHANGED <<driverState, m_selectedTrackerIndex, m_trackerInfos,
                   m_selectedHmdIndex, m_hmdInfos, events>>

\* AppStage_TrackerSettings::handle_hmd_list_response
HmdListResponse(result_code, hmd_entries) ==
    /\ requests["hmd_list"] > 0
    /\ op' = "handle_hmd_list_response"
    /\ atCall' = MenuSnapshot
    /\ args' = <<result_code>>
    /\ requests' = Answer(requests, "hmd_list")
    /\ IF result_code = "ok"
       THEN /\ m_hmdInfos' = HmdInfosOf(hmd_entries)
            /\ m_selectedHmdIndex' =
                    SelectedHmdAfter(m_selectedHmdIndex,
                                     Len(HmdInfosOf(hmd_entries)))
            /\ m_menuState' = "idle"
       ELSE /\ m_menuState' = "failedControllerListRequest"
            /\ UNCHANGED <<m_hmdInfos, m_selectedHmdIndex>>
    /\ UNCHANGED <<driverState, m_selectedTrackerIndex, m_trackerInfos,
                   m_selectedControllerIndex, m_controllerInfos, events>>

\* renderUI, idle: the "<" and ">" buttons of the tracker.
PressTrackerButton(button) ==
    /\ m_menuState = "idle"
    /\ Len(m_trackerInfos) > 0
    /\ \/ /\ button = "<"
          /\ m_selectedTrackerIndex > 0
          /\ m_selectedTrackerIndex' = m_selectedTrackerIndex - 1
       \/ /\ button = ">"
          /\ m_selectedTrackerIndex + 1 < Len(m_trackerInfos)
          /\ m_selectedTrackerIndex' = m_selectedTrackerIndex + 1
    /\ op' = "renderUI"
    /\ atCall' = NoCall
    /\ args' = <<button, "TrackerIndex">>
    /\ UNCHANGED <<driverState, m_menuState, m_trackerInfos,
                   m_selectedControllerIndex, m_controllerInfos,
                   m_selectedHmdIndex, m_hmdInfos, requests, events>>

\* renderUI, idle: the "<" and ">" buttons of the controller.
PressControllerButton(button) ==
    /\ m_menuState = "idle"
    /\ Len(m_trackerInfos) > 0
    /\ Len(m_controllerInfos) > 0
    /\ \/ /\ button = "<"
          /\ m_selectedControllerIndex >= 0
          /\ m_selectedControllerIndex' = m_selectedControllerIndex - 1
       \/ /\ button = ">"
          /\ m_selectedControllerIndex + 1 < Len(m_controllerInfos)
          /\ m_selectedControllerIndex' = m_selectedControllerIndex + 1
    /\ op' = "renderUI"
    /\ atCall' = NoCall
    /\ args' = <<button, "Controller">>
    /\ UNCHANGED <<driverState, m_menuState, m_selectedTrackerIndex,
                   m_trackerInfos, m_controllerInfos, m_selectedHmdIndex,
                   m_hmdInfos, requests, events>>

\* renderUI, idle: the "<" and ">" buttons of the HMD.
PressHmdButton(button) ==
    /\ m_menuState = "idle"
    /\ Len(m_trackerInfos) > 0
    /\ Len(m_hmdInfos) > 0
    /\ \/ /\ button = "<"
          /\ m_selectedHmdIndex > 0
          /\ m_selectedHmdIndex' = m_selectedHmdIndex - 1
       \/ /\ button = ">"
          /\ m_selectedHmdIndex + 1 < Len(m_hmdInfos)
          /\ m_selectedHmdIndex' = m_selectedHmdIndex + 1
    /\ op' = "renderUI"
    /\ atCall' = NoCall
    /\ args' = <<button, "HMD">>
    /\ UNCHANGED <<driverState, m_menuState, m_selectedTrackerIndex,
                   m_trackerInfos, m_selectedControllerIndex, m_controllerInfos,
                   m_hmdInfos, requests, events>>

\* renderUI, a failed state: the Retry button.
PressRetry ==
    /\ m_menuState \in FailedStates
    /\ m_menuState' = request_tracker_list(m_menuState, requests).m_menuState
    /\ requests' = request_tracker_list(m_menuState, requests).requests
    /\ op' = "renderUI"
    /\ atCall' = NoCall
    /\ args' = <<"Retry">>
    /\ UNCHANGED <<driverState, m_selectedTrackerIndex, m_trackerInfos,
                   m_selectedControllerIndex, m_controllerInfos,
                   m_selectedHmdIndex, m_hmdInfos, events>>

Buttons == {"<", ">"}

NextMenu ==
    \/ Enter
    \/ ControllerListUpdated
    \/ \E result_code \in ResultCodes, tracker_list \in TrackerLists :
            TrackerListResponse(result_code, tracker_list)
    \/ \E result_code \in ResultCodes, controllers \in ControllerLists :
            ControllerListResponse(result_code, controllers)
    \/ \E result_code \in ResultCodes, hmd_entries \in HmdLists :
            HmdListResponse(result_code, hmd_entries)
    \/ \E button \in Buttons : PressTrackerButton(button)
    \/ \E button \in Buttons : PressControllerButton(button)
    \/ \E button \in Buttons : PressHmdButton(button)
    \/ PressRetry

\* The driver as constructed, with the menu as constructed.
InitMenu ==
    /\ HIDDetails = Reset
    /\ cfg = DefaultConfig
    /\ cfgFile = NoDocument
    /\ NextPollSequenceNumber = 0
    /\ InData = ZeroDataInput
    /\ HMDStates = <<>>
    /\ pc = "idle"
    /\ iteration = 0
    /\ result = NoResult
    /\ op = NoCall
    /\ args = <<>>
    /\ live = {}
    /\ decoded = <<>>
    /\ atCall = NoCall
    /\ hidLog = <<>>
    /\ consecutiveFailures = 0
    /\ MenuInit

SpecMenu == InitMenu /\ [][NextMenu]_vars

\* The menu when every request is answered with ok: the responses.
OkResponse ==
    \/ \E tracker_list \in TrackerLists : TrackerListResponse("ok", tracker_list)
    \/ \E controllers \in ControllerLists :
            ControllerListResponse("ok", controllers)
    \/ \E hmd_entries \in HmdLists : HmdListResponse("ok", hmd_entries)

NextMenuOk ==
    \/ Enter
    \/ ControllerListUpdated
    \/ OkResponse
    \/ \E button \in Buttons : PressTrackerButton(button)
    \/ \E button \in Buttons : PressControllerButton(button)
    \/ \E button \in Buttons : PressHmdButton(button)

\* Every request is answered in the end; MaxEvents bounds the events.
SpecMenuOk == InitMenu /\ [][NextMenuOk]_vars /\ WF_vars(OkResponse)

\* ------------------------------------------------------------- properties
Last(s) == s[Len(s)]

\* The call that runs or has just returned is poll() / open() / close().
InPoll == op = "poll"
ReturnedFrom(name) == pc = "returned" /\ op = name

\* The results of the hid_read calls poll() has made so far in this call.
ReadResults == [i \in 1..Len(hidLog) |-> hidLog[i].res]

\* C1: the state history never holds more than MORPHEUS_HMD_STATE_BUFFER_MAX
\* (4) entries, and once more than 4 packets have been decoded it holds
\* exactly the last 4 decoded entries, oldest first.
C1_HistoryBounded ==
    /\ Len(HMDStates) <= 4
    /\ Len(decoded) > 4 => HMDStates = LastOf(decoded, 4)

\* C2: when close() returns on a device that has decoded at least one
\* packet, the history is empty and getState(k) is not-found for every k >= 0.
C2_CloseClearsHistory ==
    (ReturnedFrom("close") /\ decoded # <<>>) =>
        /\ HMDStates = <<>>
        /\ \A k \in 0..MaxLookBack : getState(k) = NullState

\* C3: for a history of length L and every lookback k >= 0, getState(k) is
\* the entry decoded k insertions before the most recent one when k < L and
\* the not-found indication when k >= L; getState(0) is the entry appended
\* last whenever L > 0.
C3_GetStateLookback ==
    \A k \in 0..MaxLookBack :
        getState(k) =
            IF k < Len(HMDStates)
            THEN decoded[Len(decoded) - k]
            ELSE NullState

\* C3's case: a full history, read at its newest and oldest entry and past it.
C3_Witness ==
    /\ pc = "idle"
    /\ Len(HMDStates) >= 4
    /\ getState(0) = Last(decoded)
    /\ getState(Len(HMDStates) - 1) = HMDStates[1]
    /\ getState(0) # getState(Len(HMDStates) - 1)
    /\ getState(Len(HMDStates)) = NullState

\* A step of poll() in which hid_read returned a packet.
DecodeStep ==
    /\ pc = "poll"
    /\ Len(hidLog') = Len(hidLog) + 1
    /\ Last(hidLog').res = "positive"

\* C4: while the device stays open, the sequence counter changes only when a
\* packet is decoded; the decoded entry gets the counter's value and the
\* counter advances by exactly 1.  So successive entries carry n, n+1, n+2,
\* ... within a poll() and across polls, whatever other polls return.
C4_SequenceStep ==
    [][/\ DecodeStep =>
            /\ Last(HMDStates').PollSequenceNumber = NextPollSequenceNumber
            /\ NextPollSequenceNumber' = NextPollSequenceNumber + 1
       /\ (~DecodeStep /\ getIsOpen /\ getIsOpen') =>
            NextPollSequenceNumber' = NextPollSequenceNumber]_vars

\* C4's case: a second poll() of the open device has decoded a packet after
\* an earlier poll() decoded one; the two entries are numbered n and n+1.
C4_Witness ==
    /\ ReturnedFrom("poll")
    /\ Len(hidLog) = 2
    /\ atCall.NextPollSequenceNumber >= 1
    /\ Len(HMDStates) >= 2
    /\ Last(HMDStates).PollSequenceNumber = atCall.NextPollSequenceNumber
    /\ HMDStates[Len(HMDStates) - 1].PollSequenceNumber
            = atCall.NextPollSequenceNumber - 1

\* C5: in poll() a read of 0 bytes is the call's last read; when it is the
\* first read the call returns NoData with history and sequence counter as
\* at the call, and when packets were read before it the call returns NewData.
C5_NoMoreData ==
    InPoll =>
        /\ \A i \in 1..Len(hidLog) :
                ReadResults[i] = "zero" => (i = Len(hidLog) /\ pc = "returned")
        /\ (hidLog # <<>> /\ Last(hidLog).res = "zero") =>
                IF Len(hidLog) = 1
                THEN /\ result = _PollResultSuccessNoData
                     /\ HMDStates = atCall.HMDStates
                     /\ NextPollSequenceNumber = atCall.NextPollSequenceNumber
                ELSE result = _PollResultSuccessNewData

\* C5's case: poll() has returned after reading packets and then 0 bytes.
C5_Witness ==
    /\ ReturnedFrom("poll")
    /\ Len(hidLog) >= 2
    /\ Last(hidLog).res = "zero"
    /\ result = _PollResultSuccessNewData

\* C6: in poll() a negative read is the call's last read and makes the call
\* return Failure; the failing read appends no entry and takes no sequence
\* number: the counter has advanced by the number of packets read before it
\* and the newest entry is the one of the last packet read; history and
\* counter are unchanged by the call when the first read fails.
C6_ReadError ==
    InPoll =>
        /\ \A i \in 1..Len(hidLog) :
                ReadResults[i] = "negative" =>
                    (i = Len(hidLog) /\ pc = "returned")
        /\ (hidLog # <<>> /\ Last(hidLog).res = "negative") =>
                /\ result = _PollResultFailure
                /\ NextPollSequenceNumber
                        = atCall.NextPollSequenceNumber + Len(hidLog) - 1
                /\ Len(hidLog) > 1 =>
                        Last(HMDStates) =
                            NewState(NextPollSequenceNumber - 1, cfg, InData)
                /\ Len(hidLog) = 1 =>
                        /\ HMDStates = atCall.HMDStates
                        /\ NextPollSequenceNumber
                                = atCall.NextPollSequenceNumber

\* C6's case: poll() has returned Failure after packets and then an error.
C6_Witness ==
    /\ ReturnedFrom("poll")
    /\ Len(hidLog) >= 2
    /\ Last(hidLog).res = "negative"
    /\ result = _PollResultFailure

\* C7: a poll() call makes at most 32 reads and has returned once it made
\* 32; when all 32 reads return a packet the call returns NewData with the
\* sequence counter advanced by exactly 32.
C7_BoundedReads ==
    InPoll =>
        /\ Len(hidLog) <= 32
        /\ pc = "poll" => Len(hidLog) < 32
        /\ (pc = "returned" /\ Len(hidLog) = 32
                /\ Last(hidLog).res = "positive") =>
                /\ result = _PollResultSuccessNewData
                /\ NextPollSequenceNumber = atCall.NextPollSequenceNumber + 32

\* C7's case: poll() has returned after 32 reads that all returned a packet.
C7_Witness ==
    /\ ReturnedFrom("poll")
    /\ Len(hidLog) = 32
    /\ \A i \in 1..32 : ReadResults[i] = "positive"

\* C8: poll() on a device that is not open returns Failure at once, reads no
\* channel, and leaves handles, paths, configuration, persisted document,
\* sequence counter, input buffer and history as they were.
C8_PollNotOpen ==
    (InPoll /\ ~IsOpen(atCall.HIDDetails)) =>
        /\ pc = "returned"
        /\ result = _PollResultFailure
        /\ hidLog = <<>>
        /\ Snapshot = atCall

\* C8's case: poll() has returned on a device that was closed after it had
\* decoded packets.
C8_Witness ==
    /\ ReturnedFrom("poll")
    /\ ~IsOpen(atCall.HIDDetails)
    /\ HMDStates # <<>>
    /\ NextPollSequenceNumber > 0

\* C9: open() on an open device returns success, makes no transport call,
\* and leaves both handles, both paths and the stored identity unchanged.
C9_OpenWhenOpen ==
    (ReturnedFrom("open") /\ IsOpen(atCall.HIDDetails)) =>
        /\ result = TRUE
        /\ hidLog = <<>>
        /\ HIDDetails = atCall.HIDDetails
        /\ live = atCall.live

\* C9's case: open() has returned on an open device, called with another
\* enumerator path than the one the device was opened with.
C9_Witness ==
    /\ ReturnedFrom("open")
    /\ IsOpen(atCall.HIDDetails)
    /\ args[1] # atCall.HIDDetails.device_identifier

\* The number of hid_close calls on handle h in this call.
CloseCount(h) ==
    Cardinality({i \in 1..Len(hidLog) : hidLog[i] = CloseCallLog(h)})

\* C10: the sensor handle is non-null iff the command handle is; open() on a
\* closed device returns success exactly when both hid_open_path calls
\* returned a handle, and then holds both; otherwise it returns failure with
\* both handles null and every handle it opened closed exactly once.
C10_NoPartialOpen ==
    /\ (HIDDetails.sensor_device_handle # nullptr)
            <=> (HIDDetails.command_device_handle # nullptr)
    /\ (ReturnedFrom("open") /\ ~IsOpen(atCall.HIDDetails)) =>
            LET sensor == hidLog[1].handle
                command == hidLog[2].handle
                opened == {sensor, command} \ {nullptr}
            IN  /\ hidLog[1].call = "hid_open_path"
                /\ hidLog[2].call = "hid_open_path"
                /\ result = (sensor # nullptr /\ command # nullptr)
                /\ result = TRUE =>
                        /\ HIDDetails.sensor_device_handle = sensor
                        /\ HIDDetails.command_device_handle = command
                        /\ live = atCall.live \cup opened
                        /\ \A h \in opened : CloseCount(h) = 0
                /\ result = FALSE =>
                        /\ HIDDetails.sensor_device_handle = nullptr
                        /\ HIDDetails.command_device_handle = nullptr
                        /\ live = atCall.live
                        /\ \A h \in opened : CloseCount(h) = 1

\* C10's case: open() has failed after it opened the sensor channel only.
C10_Witness ==
    /\ ReturnedFrom("open")
    /\ ~IsOpen(atCall.HIDDetails)
    /\ result = FALSE
    /\ hidLog[1].handle # nullptr
    /\ hidLog[2].handle = nullptr

\* C11: when close() returns both handles are null; close() on a device
\* whose handles are both null makes no transport call and changes no
\* member; every hid_close of any call is on a handle that was open (at the
\* call's entry, or opened earlier in the call) and is made once (no handle
\* is closed twice).
C11_CloseIdempotent ==
    /\ \A i \in 1..Len(hidLog) :
            hidLog[i].call = "hid_close" =>
                /\ hidLog[i].handle \in
                        atCall.live \cup
                            {hidLog[j].handle : j \in
                                {k \in 1..(i - 1) :
                                    hidLog[k].call = "hid_open_path"}}
                /\ CloseCount(hidLog[i].handle) = 1
    /\ ReturnedFrom("close") =>
            /\ HIDDetails.sensor_device_handle = nullptr
            /\ HIDDetails.command_device_handle = nullptr
            /\ live = {}
            /\ (/\ atCall.HIDDetails.sensor_device_handle = nullptr
                /\ atCall.HIDDetails.command_device_handle = nullptr) =>
                    (hidLog = <<>> /\ Snapshot = atCall)

\* C11's case: a second close() has returned on a device that was opened,
\* polled and closed before.
C11_Witness ==
    /\ ReturnedFrom("close")
    /\ atCall.HIDDetails = Reset
    /\ HMDStates # <<>>
    /\ hidLog = <<>>

\* C12: open() on a closed device that opens both channels leaves the
\* persisted document equal to the saved configuration and the sequence
\* counter at 0, and one that fails leaves document and counter as they
\* were; the counter is still 0 when the first poll() after the open starts,
\* so the first entry decoded after a successful open, reopen included,
\* carries sequence number 0.
C12_OpenPersistsAndResets ==
    /\ (ReturnedFrom("open") /\ ~IsOpen(atCall.HIDDetails)) =>
            IF result = TRUE
            THEN /\ cfgFile = Document(config2ptree(cfg))
                 /\ NextPollSequenceNumber = 0
            ELSE /\ cfgFile = atCall.cfgFile
                 /\ NextPollSequenceNumber = atCall.NextPollSequenceNumber
    /\ (getIsOpen /\ pc = "idle" /\ NextPollSequenceNumber # 0) =>
            /\ HMDStates # <<>>
            /\ \E n \in 1..NextPollSequenceNumber :
                    /\ n <= Len(HMDStates)
                    /\ \/ n = NextPollSequenceNumber
                       \/ n = Len(HMDStates)
                    /\ \A k \in 0..(n - 1) :
                            getState(k).PollSequenceNumber
                                = NextPollSequenceNumber - 1 - k

\* C12's case: after a close and a successful reopen, the first packet of
\* the first poll() has been decoded; its entry carries sequence number 0
\* and follows entries of the earlier session.
C12_Witness ==
    /\ InPoll
    /\ Len(hidLog) = 1
    /\ hidLog[1].res = "positive"
    /\ atCall.HMDStates # <<>>
    /\ atCall.NextPollSequenceNumber = 0
    /\ Last(HMDStates).PollSequenceNumber = 0
    /\ Len(HMDStates) >= 2
    /\ HMDStates[Len(HMDStates) - 1].PollSequenceNumber > 0


\* C13: a read error never closes the device: during and after a poll() on
\* an open device the handles, the paths and the transport's open handles
\* are those at the call, whatever the reads returned and however many polls
\* in a row have failed (the driver does not compare that number with
\* getMaxPollFailureCount()); only close() takes the device from open to
\* closed.
C13_ReadErrorKeepsOpen ==
    /\ (InPoll /\ IsOpen(atCall.HIDDetails)) =>
            /\ HIDDetails = atCall.HIDDetails
            /\ live = atCall.live
            /\ getIsOpen
    /\ (pc = "returned" /\ IsOpen(atCall.HIDDetails) /\ ~getIsOpen) =>
            op = "close"

\* More polls in a row than getMaxPollFailureCount() have failed, the last
\* of them on a read error, and the device is open.
C13_Witness ==
    /\ consecutiveFailures > getMaxPollFailureCount
    /\ ReturnedFrom("poll")
    /\ result = _PollResultFailure
    /\ Len(hidLog) = 1
    /\ Last(hidLog).res = "negative"
    /\ getIsOpen

\* The lookback arguments getState() is called with.
LookBacks == (0 - MaxLookBack)..MaxLookBack

\* C14: nothing but a result crosses the driver boundary: for every history
\* and every integer lookback, negative ones included, getState() returns an
\* entry of the history or the not-found indication (never an exception),
\* and open(), close() and poll() report through their boolean or enumerated
\* result.
C14_NoExceptionCrosses ==
    /\ \A lookBack \in LookBacks :
            \/ getState(lookBack) = NullState
            \/ \E i \in 1..Len(HMDStates) : getState(lookBack) = HMDStates[i]
    /\ ReturnedFrom("open") => result \in BOOLEAN
    /\ ReturnedFrom("poll") =>
            result \in {_PollResultSuccessNoData, _PollResultSuccessNewData,
                        _PollResultFailure}

\* The key each numeric member is stored under, and the keys of the gravity
\* direction.
NumberKeys ==
    [accelerometer_gain |-> "Calibration.Accel.Gain",
     accelerometer_variance |-> "Calibration.Accel.Variance",
     gyro_gain |-> "Calibration.Gyro.Gain",
     gyro_variance |-> "Calibration.Gyro.Variance",
     gyro_drift |-> "Calibration.Gyro.Drift",
     min_orientation_quality_screen_area |->
        "OrientationFilter.MinQualityScreenArea",
     max_orientation_quality_screen_area |->
        "OrientationFilter.MaxQualityScreenArea",
     min_position_quality_screen_area |-> "PositionFilter.MinQualityScreenArea",
     max_position_quality_screen_area |-> "PositionFilter.MaxQualityScreenArea",
     max_velocity |-> "PositionFilter.MaxVelocity",
     prediction_time |-> "prediction_time",
     max_poll_failure_count |-> "max_poll_failure_count"]
GravityKeys ==
    [i |-> "Calibration.Identity.Gravity.X",
     j |-> "Calibration.Identity.Gravity.Y",
     k |-> "Calibration.Identity.Gravity.Z"]
AllKeys ==
    {NumberKeys[f] : f \in DOMAIN NumberKeys}
        \cup {GravityKeys[a] : a \in DOMAIN GravityKeys}
        \cup {"is_valid", "version", "tracking_color"}

\* The tree the load that has just returned read, and the version in it.
LoadedTree == atCall.cfgFile[1]
LoadedVersion ==
    IF "version" \in DOMAIN LoadedTree
            /\ \E n \in Numbers : NumberText(n) = LoadedTree["version"]
    THEN CHOOSE n \in Numbers : NumberText(n) = LoadedTree["version"]
    ELSE 0
ReturnedFromLoadOfFile == ReturnedFrom("load") /\ atCall.cfgFile # NoDocument

\* The tree holds a number / a bool / a colour under the key.
HoldsNumber(pt, key) ==
    key \in DOMAIN pt /\ \E n \in Numbers : NumberText(n) = pt[key]
HoldsBool(pt, key) == key \in DOMAIN pt /\ pt[key] \in {"true", "false"}
HoldsColor(pt, key) == key \in DOMAIN pt /\ pt[key] \in TrackingColors

\* C15: after loading a document whose version is not the expected one (1)
\* every member of the configuration has its default, is_valid = false
\* included, whatever the configuration held before the load, and the load
\* has warned without failing.
C15_VersionMismatchYieldsDefaults ==
    (ReturnedFromLoadOfFile /\ LoadedVersion # 1) =>
        /\ result.loaded
        /\ result.warning
        /\ cfg.is_valid = FALSE
        /\ \A f \in ConfigFields : cfg[f] = DefaultConfig[f]

\* C16: after loading a document of the expected version every member has
\* the document's value when the document holds one and the member's
\* compiled-in default when it does not, whatever the other keys of the
\* document and whatever the configuration held before the load.
C16_FieldsLoadedIndependently ==
    (ReturnedFromLoadOfFile /\ LoadedVersion = 1) =>
        /\ \A f \in DOMAIN NumberKeys :
                IF HoldsNumber(LoadedTree, NumberKeys[f])
                THEN NumberText(cfg[f]) = LoadedTree[NumberKeys[f]]
                ELSE cfg[f] = DefaultConfig[f]
        /\ \A a \in DOMAIN GravityKeys :
                IF HoldsNumber(LoadedTree, GravityKeys[a])
                THEN NumberText(cfg.identity_gravity_direction[a])
                        = LoadedTree[GravityKeys[a]]
                ELSE cfg.identity_gravity_direction[a]
                        = DefaultConfig.identity_gravity_direction[a]
        /\ IF HoldsBool(LoadedTree, "is_valid")
           THEN BoolText(cfg.is_valid) = LoadedTree["is_valid"]
           ELSE cfg.is_valid = FALSE
        /\ IF HoldsColor(LoadedTree, "tracking_color")
           THEN cfg.tracking_color_id = LoadedTree["tracking_color"]
           ELSE cfg.tracking_color_id = DefaultConfig.tracking_color_id

\* C20: save() writes the expected version (1) and every member, so that
\* loading the saved document back, into this configuration or into another
\* one, gives every member the value it had at the save and the expected
\* version without a warning, also when the version member held another
\* number at the save.
C20_SaveLoadRoundTrip ==
    /\ ReturnedFrom("save") =>
            /\ DOMAIN cfgFile[1] = AllKeys
            /\ cfgFile[1]["version"] = NumberText(1)
            /\ \A c \in {cfg, DefaultConfig, CalibratedConfig} :
                    /\ ~ptree2config(c, cfgFile[1]).warning
                    /\ \A f \in ConfigFields :
                            ptree2config(c, cfgFile[1]).cfg[f] = cfg[f]
    /\ (ReturnedFromLoadOfFile /\ LoadedTree = config2ptree(atCall.cfg)) =>
            /\ \A f \in ConfigFields : cfg[f] = atCall.cfg[f]
            /\ cfg.version = 1
            /\ ~result.warning

\* A configuration that is not the default one and whose version member is
\* not the expected one was saved and has been loaded back.
C20_Witness ==
    /\ ReturnedFromLoadOfFile
    /\ LoadedTree = config2ptree(atCall.cfg)
    /\ atCall.cfg.version # 1
    /\ atCall.cfg.is_valid
    /\ \A f \in DOMAIN NumberKeys : atCall.cfg[f] # DefaultConfig[f]
    /\ cfg.version = 1

\* The axes of a raw sub-frame, and the decoded raw and calibrated value of
\* an axis in a decoded sensor frame.
Axes == {"accel_x", "accel_y", "accel_z", "gyro_x", "gyro_y", "gyro_z"}
AxisIndex == [accel_x |-> 1, accel_y |-> 2, accel_z |-> 3,
              gyro_x |-> 1, gyro_y |-> 2, gyro_z |-> 3]
IsAccel(axis) == axis \in {"accel_x", "accel_y", "accel_z"}
RawOf(frame, axis) ==
    IF IsAccel(axis) THEN frame.RawAccel[AxisIndex[axis]]
    ELSE frame.RawGyro[AxisIndex[axis]]
CalibratedOf(frame, axis) ==
    IF IsAccel(axis) THEN frame.CalibratedAccel[AxisIndex[axis]]
    ELSE frame.CalibratedGyro[AxisIndex[axis]]
GainOf(config, axis) ==
    IF IsAccel(axis) THEN config.accelerometer_gain ELSE config.gyro_gain

\* C17: for every byte pair <<low, high>> of the input the decoded raw value
\* of the axis is (high << 8) | low taken as a signed 16-bit integer: it
\* lies in -32768..32767, is congruent to 256 * high + low modulo 65536 and
\* is negative exactly when high >= 128; <<0x34, 0x12>> decodes to 4660; and
\* the raw value is stored as it is next to the calibrated value, which is
\* the raw value times the gain.
C17_ByteDecode ==
    ReturnedFrom("parse_data_input") =>
        \A n \in {1, 2}, axis \in Axes :
            LET pair == IF n = 1 THEN atCall.InData.imu_frame_0[axis]
                        ELSE atCall.InData.imu_frame_1[axis]
                value == RawOf(result.SensorFrames[n], axis)
            IN  /\ value \in -32768..32767
                /\ (value - (256 * pair[2] + pair[1])) % 65536 = 0
                /\ value < 0 <=> pair[2] >= 128
                /\ pair = <<52, 18>> => value = 4660
                /\ CalibratedOf(result.SensorFrames[n], axis)
                        = value * GainOf(atCall.cfg, axis)

\* <<0x34, 0x12>> has been decoded to 4660, next to an axis with a negative
\* value.
C17_Witness ==
    /\ ReturnedFrom("parse_data_input")
    /\ atCall.InData.imu_frame_0.accel_x = <<52, 18>>
    /\ result.SensorFrames[1].RawAccel[1] = 4660
    /\ result.SensorFrames[1].RawGyro[2] < 0
    /\ result.SensorFrames[1].CalibratedAccel[1] = 4660 * cfg.accelerometer_gain

\* C18: every successful open() of a closed device loads the persisted
\* configuration (keeping the defaults when there is none) before it
\* persists the configuration, so the configuration the decoder then uses is
\* the one loaded from the file found at the call and the file written holds
\* it; no other operation changes the configuration.
C18_ConfigLoadedAtOpen ==
    /\ (ReturnedFrom("open") /\ ~IsOpen(atCall.HIDDetails) /\ result = TRUE) =>
            /\ cfg = IF atCall.cfgFile = NoDocument THEN atCall.cfg
                     ELSE ptree2config(atCall.cfg, atCall.cfgFile[1]).cfg
            /\ cfgFile = Document(config2ptree(cfg))
    /\ (pc # "idle" /\ op # "open") => cfg = atCall.cfg

\* C19: after a failed open(), whichever of the two channels failed, both
\* handles are null and the device identifier and both paths are empty as
\* after close(), so that a device that is not open matches no enumerator
\* path.
C19_FailedOpenReleasesAll ==
    /\ (ReturnedFrom("open") /\ result = FALSE) => HIDDetails = Reset
    /\ ~getIsOpen =>
            \A enumerator_path \in EnumeratorPaths :
                ~matchesDeviceEnumerator(enumerator_path)

\* struct MorpheusDataInput under #pragma pack(1): its members in the order
\* of declaration, each with its size in bytes (a MorpheusRawSensorFrame is
\* six arrays of two unsigned chars).
sizeofMorpheusRawSensorFrame == 6 * 2
MorpheusDataInputMembers ==
    << <<"buttons", 1>>, <<"unk0", 1>>, <<"volume", 1>>, <<"unk1", 5>>,
       <<"headsetFlags", 1>>, <<"unkFlags", 1>>, <<"unk2", 4>>, <<"frame", 2>>,
       <<"imu_frame_0", sizeofMorpheusRawSensorFrame>>, <<"unk3", 4>>,
       <<"imu_frame_1", sizeofMorpheusRawSensorFrame>> >>

\* The sum of the sizes of the first n members.
RECURSIVE SizeOfFirst(_)
SizeOfFirst(n) ==
    IF n = 0 THEN 0 ELSE SizeOfFirst(n - 1) + MorpheusDataInputMembers[n][2]

\* offsetof(MorpheusDataInput, member): without padding, the sizes of the
\* members declared before it.
offsetof(member) ==
    LET n == CHOOSE i \in 1..Len(MorpheusDataInputMembers) :
                    MorpheusDataInputMembers[i][1] = member
    IN  SizeOfFirst(n - 1)

\* The bytes of a MorpheusRawSensorFrame, and the bytes of the
\* MorpheusDataInput as hid_read fills it from byte 0 of the report (the
\* members the driver does not read are left at 0).
RawFrameBytes(frame) ==
    frame.accel_x \o frame.accel_y \o frame.accel_z
        \o frame.gyro_x \o frame.gyro_y \o frame.gyro_z
ReportBytes(inData) ==
    [b \in 1..offsetof("imu_frame_0") |-> 0]
        \o RawFrameBytes(inData.imu_frame_0)
        \o [b \in 1..4 |-> 0]
        \o RawFrameBytes(inData.imu_frame_1)

\* Bytes first..last of a report, counted from 0 (nothing past its end).
BytesOf(report, first, last) ==
    [b \in 1..(last - first + 1) |->
        IF first + b <= Len(report) THEN report[first + b] ELSE "none"]

\* C21: the first IMU sub-frame is at bytes 20-31 of the packet and the
\* second at bytes 36-47: the members declared before imu_frame_0 take 20
\* bytes, those before imu_frame_1 take 36, and the two sensor frames of a
\* decoded entry are decoded from these bytes of the report.
C21_FrameOffsets ==
    /\ offsetof("imu_frame_0") = 20
    /\ offsetof("imu_frame_1") = 36
    /\ ReturnedFrom("parse_data_input") =>
            /\ BytesOf(ReportBytes(atCall.InData), 20, 31)
                    = RawFrameBytes(atCall.InData.imu_frame_0)
            /\ BytesOf(ReportBytes(atCall.InData), 36, 47)
                    = RawFrameBytes(atCall.InData.imu_frame_1)

\* C22: getTrackingColorID() reports success and the colour Blue in every
\* state of the device and whatever tracking_color_id the configuration
\* holds, also after a load that has set another colour.
C22_TrackingColorFixed ==
    /\ getTrackingColorID[1] = TRUE
    /\ getTrackingColorID[2] = "Blue"

\* The device is open and a load has set the colour Red.
C22_Witness ==
    /\ ReturnedFromLoadOfFile
    /\ getIsOpen
    /\ atCall.cfg.tracking_color_id = "Blue"
    /\ cfg.tracking_color_id = "Red"
    /\ getTrackingColorID = <<TRUE, "Blue">>

\* C23: in every state reached by open(), poll() and close(), a close
\* followed by a successful reopen included, the history is ordered by
\* sequence number, each entry one above the entry before it:
\* getState(k).sequence = getState(0).sequence - k for every valid k.
C23_HistoryConsecutive ==
    \A k \in 0..(Len(HMDStates) - 1) :
        getState(k).PollSequenceNumber = getState(0).PollSequenceNumber - k

\* The tracker render() and renderUI() read in the idle state exists.
SelectedTrackerExists ==
    m_selectedTrackerIndex >= 0 => m_selectedTrackerIndex < Len(m_trackerInfos)

\* C24: after every successful tracker list response the selected tracker
\* index is -1 or an index into the tracker list, so that whenever the menu
\* is idle with a selected index >= 0 the tracker at that index exists.
C24_SelectedTrackerValid ==
    /\ m_selectedTrackerIndex \in -1..(Len(m_trackerInfos) - 1)
    /\ m_menuState = "idle" => SelectedTrackerExists

\* C25: after any successful controller list and HMD list responses and any
\* presses of the "<" and ">" buttons the selected controller index and the
\* selected HMD index are within -1 .. size - 1 of their list, so that
\* get_selected_controller() and get_selected_hmd() index inside the list.
C25_SelectedControllerAndHmdValid ==
    /\ m_selectedControllerIndex \in -1..(Len(m_controllerInfos) - 1)
    /\ m_selectedHmdIndex \in -1..(Len(m_hmdInfos) - 1)

\* A controller list response has shortened the list under the selected
\* index, and the selection has gone back to all controllers.
C25_Witness ==
    /\ op = "handle_controller_list_response"
    /\ args = <<"ok">>
    /\ m_selectedControllerIndex = -1
    /\ Len(m_controllerInfos) = 1
    /\ m_selectedHmdIndex = 1
    /\ Len(m_hmdInfos) = 2

\* A response handler has just run on a response that was not ok.
FailedResponse(handler) == op = handler /\ args # <<"ok">>

\* C27: an error or canceled response moves the menu to the failed state of
\* the request that failed (failedTrackerListRequest, failedControllerList-
\* Request, failedHmdListRequest) and leaves the lists and the selected
\* indices as they were.
C27_FailedStateOfRequest ==
    /\ FailedResponse("handle_tracker_list_response") =>
            m_menuState = "failedTrackerListRequest" /\ MenuSnapshot = atCall
    /\ FailedResponse("handle_controller_list_response") =>
            m_menuState = "failedControllerListRequest" /\ MenuSnapshot = atCall
    /\ FailedResponse("handle_hmd_list_response") =>
            m_menuState = "failedHmdListRequest" /\ MenuSnapshot = atCall

\* The requests awaiting a response.
Outstanding ==
    requests["tracker_list"] + requests["controller_list"] + requests["hmd_list"]

\* C26: the lists are refreshed in a chain: a successful tracker list
\* response leaves a controller list request pending, a successful
\* controller list response an HMD list request, and the menu becomes idle
\* only on a successful HMD list response; so whenever the menu is idle no
\* request of the menu awaits its response, also when controllerListUpdated
\* events have arrived while a request was pending.
C26_IdleMeansNoRequest ==
    /\ (op = "handle_tracker_list_response" /\ args = <<"ok">>) =>
            /\ m_menuState = "pendingControllerListRequest"
            /\ requests["controller_list"] > 0
    /\ (op = "handle_controller_list_response" /\ args = <<"ok">>) =>
            /\ m_menuState = "pendingHmdListRequest"
            /\ requests["hmd_list"] > 0
    /\ m_menuState = "idle" =>
            \/ op = "handle_hmd_list_response" /\ args = <<"ok">>
            \/ op = "renderUI"
    /\ m_menuState = "idle" => Outstanding = 0

\* C28: at no time does more than one list request of the menu await its
\* response, whatever the interleaving of controllerListUpdated events,
\* Retry presses and responses.
C28_OneRequestAtATime == Outstanding <= 1

\* C29: when every request is answered with ok in the end and finitely many
\* controllerListUpdated events occur, the menu, once entered, reaches the
\* idle state and stays idle; and it is never in a pending state with no
\* request awaiting its response.
C29_EventuallyIdle ==
    /\ [](m_menuState \in PendingStates => Outstanding > 0)
    /\ (m_menuState # "inactive") ~> [](m_menuState = "idle")

\* After the events the last response has come and the menu is idle.
C29_Witness ==
    /\ m_menuState = "idle"
    /\ events > 0
    /\ Outstanding = 0
    /\ op = "handle_hmd_list_response"
====
